---------------------------- MODULE Spec2Model ----------------------------
(***************************************************************************)
(* A model of openfiles_async.AsyncOpenfilesClient (src/openfiles_async):  *)
(* the response interpreter _handle_response, the session lifecycle, the   *)
(* upload operations with the folder archive, and download_file with its   *)
(* destination resolution.                                                 *)
(*                                                                         *)
(* Five specifications share the module:                                   *)
(*   SpecResp      _handle_response applied to every bounded response      *)
(*   SpecDownload  download_file, step by step, on every bounded input     *)
(*   Spec          one client, concurrent tasks, scope enter/exit, close   *)
(*   SpecGather    gathered calls inside one scope, fairly scheduled       *)
(*   SpecSession   every bounded sequence of _ensure_session and close     *)
(***************************************************************************)
EXTENDS Integers, Sequences, FiniteSets, TLC

VARIABLES
    hrResp,     \* SpecResp: the response handed to _handle_response
    hrOut,      \* SpecResp: what _handle_response did with it
    dlResp,     \* SpecDownload: the response to GET /api/bag/download/{bag_id}
    dlDest,     \* SpecDownload: the destination argument
    dlPc,       \* SpecDownload: where download_file is
    dlContent,  \* SpecDownload: content, as _handle_response returned it
    dlTarget,   \* SpecDownload: destination after resolution
    dlFile,     \* SpecDownload: the file the call has opened, and what it holds
    dlOut,      \* SpecDownload: the call's result
    session,    \* Spec: self._session, 0 for None, else an index into sessions
    sessions,   \* Spec: every ClientSession the client created, "open" or "closed"
    scopePc,    \* Spec: the async with block: "outside", "body" or "exited"
    exitPath,   \* Spec: how the block's body was last left
    pc,         \* Spec: per task, where its current call is
    op,         \* Spec: per task, the operation called
    arg,        \* Spec: per task, what the path argument is on disk
    out,        \* Spec: per task, the call's result
    net,        \* Spec: per task, the response in flight to its request
    served,     \* Spec: per task, the response the service sent to its request
    used,       \* Spec: per task, the session its request went out on
    requests,   \* Spec: per task, the HTTP requests issued during the call
    thread,     \* Spec: per task, the executor job running _create_zip
    tmp,        \* Spec: per task, the temporary archive on disk
    overlap,    \* Spec: per task, whether another request was in flight with its own
    calls       \* SpecSession: the calls made so far, each with the state it found

respVars == <<hrResp, hrOut>>
dlVars == <<dlResp, dlDest, dlPc, dlContent, dlTarget, dlFile, dlOut>>
clientVars == <<session, sessions, scopePc, exitPath>>
taskVars == <<pc, op, arg, out, net, served, used, requests, thread, tmp, overlap>>
mainVars == <<clientVars, taskVars, calls>>
vars == <<respVars, dlVars, mainVars>>

(***************************************************************************)
(* Bounds.                                                                 *)
(***************************************************************************)
MaxEntries == 2      \* longest "detail" list of a validation body
MaxHdrLen == 4       \* longest Content-Disposition value, in symbols
NumTasks == 2        \* tasks calling the one client concurrently
MaxSessions == 2     \* sessions the client may create in one run
MaxVal == 2          \* distinct payloads the service may answer with
MaxCalls == 6        \* longest sequence of _ensure_session and close calls

(***************************************************************************)
(* Exceptions: the classes that can travel through the client, and their   *)
(* base classes (Python's, aiohttp's, pydantic's and exceptions.py's).     *)
(***************************************************************************)
ExcParent(e) ==
    CASE e = "OpenfilesValidationError" -> "OpenfilesError"
      [] e = "OpenfilesAPIError"        -> "OpenfilesError"
      [] e = "OpenfilesHTTPError"       -> "OpenfilesError"
      [] e = "OpenfilesError"           -> "Exception"
      [] e = "JSONDecodeError"          -> "ValueError"
      [] e = "PydanticValidationError"  -> "ValueError"
      [] e = "ValueError"               -> "Exception"
      [] e = "TypeError"                -> "Exception"
      [] e = "AttributeError"           -> "Exception"
      [] e = "RuntimeError"             -> "Exception"
      [] e = "ContentTypeError"         -> "ClientResponseError"
      [] e = "ClientResponseError"      -> "ClientError"
      [] e = "ClientError"              -> "Exception"
      [] e = "ClientConnectionError"    -> "ClientError"
      [] e = "FileNotFoundError"        -> "OSError"
      [] e = "IsADirectoryError"        -> "OSError"
      [] e = "OSError"                  -> "Exception"
      [] e = "Exception"                -> "BaseException"
      [] e = "CancelledError"           -> "BaseException"
      [] OTHER                          -> "BaseException"

RECURSIVE IsInstance(_, _)
IsInstance(e, cls) ==
    IF e = cls THEN TRUE
    ELSE IF e = "BaseException" THEN FALSE
    ELSE IsInstance(ExcParent(e), cls)

(***************************************************************************)
(* JSON values, as far as the interpreter looks into them.                 *)
(*   ty      "null" | "num" | "str" | "list" | "obj"                       *)
(*   detail  what the word detail is in the value: for an object the value *)
(*           of its "detail" key, for a string whether it has the          *)
(*           substring, for a list whether it has the element              *)
(*   shape   which response model the object fits                          *)
(*   val     the payload, to tell two values of one shape apart            *)
(***************************************************************************)
RECURSIVE SeqsUpTo(_, _)
SeqsUpTo(S, n) ==
    IF n = 0 THEN {<<>>}
    ELSE LET shorter == SeqsUpTo(S, n - 1)
         IN  shorter \cup {Append(s, x) : s \in {t \in shorter : Len(t) = n - 1}, x \in S}

EntryKinds == {"ok", "bad"}     \* an entry with loc, msg and type / one that lacks a field

DAbsent == [k |-> "absent", items |-> <<>>]
DStr    == [k |-> "str",    items |-> <<>>]
DNull   == [k |-> "null",   items |-> <<>>]
DNum    == [k |-> "num",    items |-> <<>>]
DList(items) == [k |-> "list", items |-> items]
DPresent == [k |-> "present", items |-> <<>>]   \* substring of a str, element of a list

JVal(ty, detail, shape, val) == [ty |-> ty, detail |-> detail, shape |-> shape, val |-> val]
JNull == JVal("null", DAbsent, "none", 0)

ErrorObjects ==
    {JVal("obj", d, "error", 0) :
        d \in {DAbsent, DStr, DNull, DNum} \cup {DList(s) : s \in SeqsUpTo(EntryKinds, MaxEntries)}}

ScalarValues ==
    {JNull, JVal("num", DAbsent, "none", 0)}
    \cup {JVal(t, d, "none", 0) : t \in {"str", "list"}, d \in {DAbsent, DPresent}}

(***************************************************************************)
(* HTTP responses: status, Content-Type and body. A body is kept as its    *)
(* text; json.loads either decodes the text to a JSON value or rejects it. *)
(***************************************************************************)
StatusCodes == {200, 399, 400, 422, 500}

ContentTypes == {"application/json", "application/problem+json", "text/plain", ""}

\* client.py:121   "application/json" in content_type
HasJsonSubstring(ctype) == ctype = "application/json"

\* client.py:95, 122   the Content-Type test inside aiohttp's ClientResponse.json()
IsJsonMime(ctype) == ctype \in {"application/json", "application/problem+json"}

BodyText(form, v) == [form |-> form, val |-> v]   \* form: "json" | "notjson" | "empty"

Bodies(values) ==
    {BodyText("json", v) : v \in values}
    \cup {BodyText("notjson", JNull), BodyText("empty", JNull)}

\* the Content-Disposition header of a response: absent, or its value
NoHeader == [present |-> FALSE, value |-> <<>>]
Header(v) == [present |-> TRUE, value |-> v]

Response(status, ctype, body, cd) ==
    [status |-> status, ctype |-> ctype, body |-> body, cd |-> cd]

\* aiohttp ClientResponse.ok
ResponseOk(r) == 400 > r.status

(***************************************************************************)
(* Results of a call: a returned value or a raised exception.              *)
(***************************************************************************)
NoData == [form |-> "none", val |-> JNull]

Returned(kind, data) ==
    [kind |-> "return", exc |-> kind, status |-> 0, data |-> data, details |-> <<>>]
Raised(exc, status, data, details) ==
    [kind |-> "raise", exc |-> exc, status |-> status, data |-> data, details |-> details]
RaisedBare(exc) == Raised(exc, 0, NoData, <<>>)
NoOutcome == [kind |-> "none", exc |-> "none", status |-> 0, data |-> NoData, details |-> <<>>]
NoResponse == Response(0, "", BodyText("empty", JNull), NoHeader)

\* exceptions.py: the three remote error kinds and what each carries
OpenfilesValidationError(v) ==
    Raised("OpenfilesValidationError", 0, NoData, v.detail.items)
OpenfilesAPIError(status, v) ==
    Raised("OpenfilesAPIError", status, [form |-> "decoded", val |-> v], <<>>)
OpenfilesHTTPError(status, text) ==
    Raised("OpenfilesHTTPError", status, [form |-> "text", val |-> text], <<>>)

\* await response.json(): the transport's decoder
ResponseJson(r) ==
    IF ~IsJsonMime(r.ctype) THEN RaisedBare("ContentTypeError")
    ELSE IF r.body.form = "empty" THEN Returned("json", JNull)
    ELSE IF r.body.form = "notjson" THEN RaisedBare("JSONDecodeError")
    ELSE Returned("json", r.body.val)

\* await response.text() / await response.read(): the body as sent
ResponseText(r) == r.body

\* "detail" in error_data
ContainsDetail(v) ==
    IF v.ty \in {"null", "num"} THEN RaisedBare("TypeError")
    ELSE Returned("bool", v.detail.k # "absent")

\* error_data["detail"] is evaluated: only a mapping can be subscripted by a string
SubscriptDetail(v) ==
    IF v.ty = "obj" THEN Returned("detail", v.detail) ELSE RaisedBare("TypeError")

\* HTTPValidationError(**error_data): detail is None or a list of well-formed entries
EnvelopeParses(v) ==
    \/ v.detail.k = "null"
    \/ /\ v.detail.k = "list"
       /\ \A i \in 1..Len(v.detail.items) : v.detail.items[i] = "ok"

\* client.py:107   except Exception
InnerCatches(exc) == IsInstance(exc, "Exception")

OuterCatchesAll(exc) == IsInstance(exc, "Exception")
\* client.py:114   except (ValueError, TypeError)
OuterCatches(exc) == IsInstance(exc, "ValueError") \/ IsInstance(exc, "TypeError")

\* client.py:104-109   the inner try: parse the envelope and raise the validation
\* error inside the try block whose handler catches Exception
ValidationBranch(r, v) ==
    LET thrown == IF EnvelopeParses(v)
                  THEN OpenfilesValidationError(v)
                  ELSE RaisedBare("PydanticValidationError")
    IN  IF InnerCatches(thrown.exc) THEN OpenfilesAPIError(r.status, v) ELSE thrown

\* client.py:95-112   the body of the outer try
ClassifyError(r) ==
    LET j == ResponseJson(r) IN
    IF j.kind = "raise" THEN j
    ELSE LET v == j.data
             c == ContainsDetail(v) IN
         IF c.kind = "raise" THEN c
         ELSE IF c.data
              THEN LET d == SubscriptDetail(v) IN
                   IF d.kind = "raise" THEN d
                   ELSE IF d.data.k = "str" THEN OpenfilesAPIError(r.status, v)
                   ELSE ValidationBranch(r, v)
              ELSE OpenfilesAPIError(r.status, v)

\* client.py:93-124   _handle_response
HandleResponse(r) ==
    IF ~ResponseOk(r)
    THEN LET thrown == ClassifyError(r) IN
         IF OuterCatches(thrown.exc)
         THEN OpenfilesHTTPError(r.status, ResponseText(r))
         ELSE thrown
    ELSE IF HasJsonSubstring(r.ctype)
         THEN LET j == ResponseJson(r) IN
              IF j.kind = "raise" THEN j ELSE Returned("json", j.data)
         ELSE Returned("bytes", ResponseText(r))

(***************************************************************************)
(* Content-Disposition values are sequences of symbols: the literal        *)
(* filename= , the double quote, the separator ; , a name, the path        *)
(* separator / and the parent-directory name .. .                          *)
(***************************************************************************)
FN == "filename="
QUOTE == "\""
HdrSymbols == {FN, QUOTE, ";", "report.txt", "/", ".."}

\* headers.get("Content-Disposition", "")
ContentDisposition(cd) == IF cd.present THEN cd.value ELSE <<>>

\* "filename=" in content_disposition
HasFilenameLiteral(s) == \E i \in 1..Len(s) : s[i] = FN

\* [^"]+ from position j: the longest run without a double quote
RECURSIVE NonQuoteRun(_, _)
NonQuoteRun(s, j) ==
    IF j > Len(s) \/ s[j] = QUOTE THEN <<>>
    ELSE <<s[j]>> \o NonQuoteRun(s, j + 1)

\* filename="?([^"]+)"? tried at position i: group 1, or <<>> when it does not
\* match there. The optional quote is taken when present; without a character
\* after it the engine retries with the quote not taken, and [^"]+ then meets the
\* quote itself and fails.
MatchAt(s, i) ==
    IF s[i] # FN THEN <<>>
    ELSE IF i + 1 <= Len(s) /\ s[i + 1] = QUOTE
         THEN NonQuoteRun(s, i + 2)
         ELSE NonQuoteRun(s, i + 1)

\* re.search: the leftmost position where the pattern matches
RECURSIVE SearchFrom(_, _)
SearchFrom(s, i) ==
    IF i > Len(s) THEN <<>>
    ELSE IF MatchAt(s, i) # <<>> THEN MatchAt(s, i)
    ELSE SearchFrom(s, i + 1)

DefaultFilename == <<"downloaded_file">>

\* client.py:326-343   _get_filename_from_headers
GetFilenameFromHeaders(cd) ==
    LET s == ContentDisposition(cd) IN
    IF HasFilenameLiteral(s) /\ SearchFrom(s, 1) # <<>>
    THEN SearchFrom(s, 1)
    ELSE DefaultFilename

(***************************************************************************)
(* Paths (pathlib.Path): absolute or relative, and a sequence of           *)
(* components; a component is the sequence of symbols between separators.  *)
(***************************************************************************)
MkPath(abs, parts) == [abs |-> abs, parts |-> parts]

\* the components of a string from position i, cur being the one under way
RECURSIVE SplitParts(_, _, _)
SplitParts(s, i, cur) ==
    IF i > Len(s) THEN (IF cur = <<>> THEN <<>> ELSE <<cur>>)
    ELSE IF s[i] = "/"
         THEN (IF cur = <<>> THEN <<>> ELSE <<cur>>) \o SplitParts(s, i + 1, <<>>)
         ELSE SplitParts(s, i + 1, Append(cur, s[i]))

\* Path(text)
PathOf(s) == MkPath(Len(s) > 0 /\ s[1] = "/", SplitParts(s, 1, <<>>))

\* left / right : an absolute right operand replaces the left one
PathJoin(p, q) == IF q.abs THEN q ELSE MkPath(p.abs, p.parts \o q.parts)

Cwd == << <<"cwd">> >>
OutDir == MkPath(FALSE, << <<"out">> >>)

\* where a path leads: made absolute from the working directory, .. resolved
RECURSIVE Normalise(_, _)
Normalise(done, rest) ==
    IF rest = <<>> THEN done
    ELSE IF Head(rest) = <<"..">>
         THEN Normalise(IF done = <<>> THEN <<>> ELSE SubSeq(done, 1, Len(done) - 1), Tail(rest))
         ELSE Normalise(Append(done, Head(rest)), Tail(rest))

Locate(p) == Normalise(<<>>, IF p.abs THEN p.parts ELSE Cwd \o p.parts)

\* the directories of the file system: the root, the working directory and out/
Dirs == {<<>>, Cwd, Cwd \o OutDir.parts}

\* Path.is_dir()
IsDir(p) == Locate(p) \in Dirs

\* open(path, "wb") succeeds: the parent is a directory and the path is none
CanOpenForWrite(p) ==
    LET at == Locate(p) IN
    /\ at \notin Dirs
    /\ SubSeq(at, 1, Len(at) - 1) \in Dirs

NoDest == [given |-> FALSE, path |-> MkPath(FALSE, <<>>)]
Dest(p) == [given |-> TRUE, path |-> p]

\* client.py:288-296   the destination download_file writes to
ResolveDestination(dest, filename) ==
    IF ~dest.given THEN PathOf(filename)
    ELSE IF IsDir(dest.path) THEN PathJoin(dest.path, PathOf(filename))
    ELSE dest.path

(***************************************************************************)
(* download_file, step by step.                                            *)
(***************************************************************************)
NoPath == MkPath(FALSE, <<>>)
NoFile == [open |-> FALSE, at |-> <<>>, content |-> NoData]

\* what f.write() puts into the file: bytes as they are, a str encoded
RawBytes(body) == [form |-> "bytes", val |-> body]
EncodedStr(v) == [form |-> "utf8", val |-> v]
EmptyFile == [form |-> "empty", val |-> JNull]

DownloadObjects == {JVal("obj", DAbsent, "file", 1), JVal("str", DAbsent, "none", 1)}

DownloadResponses ==
    {Response(s, c, b, NoHeader) :
        s \in {200, 404}, c \in {"application/json", "text/plain"},
        b \in Bodies(DownloadObjects)}

Destinations ==
    {NoDest, Dest(OutDir), Dest(MkPath(FALSE, << <<"out">>, <<"saved.bin">> >>)),
     Dest(MkPath(FALSE, << <<"saved.bin">> >>))}

PlainDownload == Response(200, "text/plain", BodyText("notjson", JNull), NoHeader)

\* every header with a plain successful response, every response with a few headers
InitDownload ==
    /\ \/ /\ \E h \in {NoHeader} \cup {Header(v) : v \in SeqsUpTo(HdrSymbols, MaxHdrLen)} :
                dlResp = [PlainDownload EXCEPT !.cd = h]
       \/ /\ \E r \in DownloadResponses, h \in {NoHeader, Header(<<FN, QUOTE, "report.txt", QUOTE>>)} :
                dlResp = [r EXCEPT !.cd = h]
    /\ dlDest \in Destinations
    /\ dlPc = "request"
    /\ dlContent = NoOutcome
    /\ dlTarget = NoPath
    /\ dlFile = NoFile
    /\ dlOut = NoOutcome

\* client.py:280-296   the response arrives: interpret it, then resolve the destination
DlHandleResponse ==
    /\ dlPc = "request"
    /\ LET content == HandleResponse(dlResp) IN
       IF content.kind = "raise"
       THEN /\ dlPc' = "raised"
            /\ dlOut' = content
            /\ UNCHANGED <<dlContent, dlTarget>>
       ELSE /\ dlPc' = "open"
            /\ dlContent' = content
            /\ dlTarget' = ResolveDestination(dlDest, GetFilenameFromHeaders(dlResp.cd))
            /\ UNCHANGED dlOut
    /\ UNCHANGED <<dlResp, dlDest, dlFile>>
    /\ UNCHANGED <<respVars, mainVars>>

\* client.py:298   aiofiles.open(destination, "wb") creates or truncates the file
DlOpen ==
    /\ dlPc = "open"
    /\ IF CanOpenForWrite(dlTarget)
       THEN /\ dlPc' = "write"
            /\ dlFile' = [open |-> TRUE, at |-> Locate(dlTarget), content |-> EmptyFile]
            /\ UNCHANGED dlOut
       ELSE /\ dlPc' = "raised"
            /\ dlOut' = RaisedBare(IF IsDir(dlTarget) THEN "IsADirectoryError" ELSE "FileNotFoundError")
            /\ UNCHANGED dlFile
    /\ UNCHANGED <<dlResp, dlDest, dlContent, dlTarget>>
    /\ UNCHANGED <<respVars, mainVars>>

\* client.py:299-304   write the content and return the path
DlWrite ==
    /\ dlPc = "write"
    /\ IF dlContent.exc = "bytes"
       THEN /\ dlFile' = [dlFile EXCEPT !.content = RawBytes(dlContent.data)]
            /\ dlPc' = "done"
            /\ dlOut' = Returned("path", dlTarget)
       ELSE IF dlContent.data.ty = "str"
       THEN /\ dlFile' = [dlFile EXCEPT !.content = EncodedStr(dlContent.data)]
            /\ dlPc' = "done"
            /\ dlOut' = Returned("path", dlTarget)
       ELSE /\ dlPc' = "raised"
            /\ dlOut' = RaisedBare("AttributeError")
            /\ UNCHANGED dlFile
    /\ UNCHANGED <<dlResp, dlDest, dlContent, dlTarget>>
    /\ UNCHANGED <<respVars, mainVars>>

NextDownload == DlHandleResponse \/ DlOpen \/ DlWrite

(***************************************************************************)
(* SpecResp: the interpreter on every response of the bounded set.         *)
(***************************************************************************)

RespInputs ==
    {Response(s, c, b, NoHeader) :
        s \in StatusCodes, c \in ContentTypes, b \in Bodies(ErrorObjects \cup ScalarValues)}

(***************************************************************************)
(* Spec: one client shared by concurrent tasks.                            *)
(***************************************************************************)
Tasks == 1..NumTasks

GetOps == {"get_user_info", "get_user_files_list"}

PathKinds == {"missing", "file", "dir"}

Suspended == {"opening", "reading", "zipping", "zopening", "zreading", "sent"}
Ended == {"returned", "raised", "cancelled"}

\* client.py:60   self._session is None or self._session.closed
NeedsSession == session = 0 \/ sessions[session] = "closed"

SessionsAfterEnsureAlways == Append(sessions, "open")
\* client.py:58-61   _ensure_session: the sessions created so far, afterwards
SessionsAfterEnsure == IF NeedsSession THEN Append(sessions, "open") ELSE sessions
\* client.py:61   self._session after _ensure_session
SessionAfterEnsure == IF NeedsSession THEN Len(sessions) + 1 ELSE session

\* the bound on sessions created lets a call start
MayEnsure == NeedsSession => Len(sessions) < MaxSessions

SessionsAfterCloseNever(ss, cur) == ss
SessionsAfterCloseToggles(ss, cur) ==
    IF cur = 0 THEN ss ELSE [ss EXCEPT ![cur] = IF @ = "open" THEN "closed" ELSE "open"]
\* client.py:63-66   close: the sessions after close() on a client holding cur
SessionsAfterClose(ss, cur) ==
    IF cur # 0 /\ ss[cur] = "open" THEN [ss EXCEPT ![cur] = "closed"] ELSE ss

SessionOpen == session # 0 /\ sessions[session] = "open"
SessionClosed == session # 0 /\ sessions[session] = "closed"

PathExistsAlways(kind) == TRUE
\* client.py:160, 194   Path.exists()
PathExists(kind) == kind # "missing"
\* client.py:194   Path.is_dir()
PathIsDir(kind) == kind = "dir"

\* the response model each operation decodes into, and the JSON type it takes
ModelOf(o) ==
    CASE o = "get_user_info"       -> "user"
      [] o = "get_user_files_list" -> "files"
      [] OTHER                     -> "bag"
ModelType(o) == IF o = "get_user_files_list" THEN "list" ELSE "obj"

\* what the service answers to the request of an operation: the endpoint's own shape with
\* some payload, or a failure
ServiceReplies(o) ==
    {Response(200, "application/json",
              BodyText("json", JVal(ModelType(o), DAbsent, ModelOf(o), v)), NoHeader) :
        v \in 1..MaxVal}
    \cup {Response(422, "application/json", BodyText("json", JVal("obj", DStr, "error", 0)), NoHeader)}

\* client.py:176, 220, 360, 377   UserResponse(**data), BagResponse(**data),
\* [FileInfoResponse(**item) for item in data]
DecodeModel(o, h) ==
    IF h.exc # "json" \/ h.data.ty # ModelType(o) THEN RaisedBare("TypeError")
    ELSE IF h.data.shape # ModelOf(o) THEN RaisedBare("PydanticValidationError")
    ELSE Returned(ModelOf(o), h.data)

\* client.py:175-176, 219-220, 359-360, 376-377   _handle_response, then the model
Interpret(o, r) ==
    LET h == HandleResponse(r) IN
    IF h.kind = "raise" THEN h ELSE DecodeModel(o, h)

\* Interpret over every operation and every answer of the service, tabulated
Ops == GetOps \cup {"upload_file", "upload_folder"}
InterpretTable ==
    [o \in Ops, r \in UNION {ServiceReplies(q) : q \in Ops} |-> Interpret(o, r)]

ResponseForShared(t) == net[CHOOSE u \in Tasks : net[u] # NoResponse]
\* client.py:172-175, 216-219, 356-359, 373-376   async with ... as response: the
\* response bound in the calling coroutine is the one to its own request
ResponseFor(t) == net[t]

Const(v) == [t \in Tasks |-> v]

\* client.py:31-47   __init__: no session yet, nothing running
Init ==
    /\ session = 0
    /\ sessions = <<>>
    /\ scopePc = "outside"
    /\ exitPath = "none"
    /\ pc = Const("idle")
    /\ op = Const("none")
    /\ arg = Const("none")
    /\ out = Const(NoOutcome)
    /\ net = Const(NoResponse)
    /\ served = Const(NoResponse)
    /\ used = Const(0)
    /\ requests = Const(0)
    /\ thread = Const("none")
    /\ tmp = Const("none")
    /\ overlap = Const(FALSE)
    /\ calls = <<>>
    /\ hrResp = NoResponse /\ hrOut = NoOutcome
    /\ dlResp = NoResponse /\ dlDest = NoDest /\ dlPc = "idle" /\ dlContent = NoOutcome
    /\ dlTarget = NoPath /\ dlFile = NoFile /\ dlOut = NoOutcome

Others == UNCHANGED <<respVars, dlVars, calls>>

\* client.py:49-52   __aenter__
AEnter ==
    /\ scopePc # "body"
    /\ MayEnsure
    /\ sessions' = SessionsAfterEnsure
    /\ session' = SessionAfterEnsure
    /\ scopePc' = "body"
    /\ exitPath' = "none"
    /\ UNCHANGED taskVars /\ Others

\* how the block's body can be left: normally, by the exception of an operation
\* it awaited, or by the cancellation of one
CanLeave(path) ==
    \/ path = "normal"
    \/ path = "exception" /\ \E t \in Tasks : pc[t] = "raised"
    \/ path = "cancelled" /\ \E t \in Tasks : pc[t] = "cancelled"

\* client.py:54-56   __aexit__
AExit(path) ==
    /\ scopePc = "body"
    /\ CanLeave(path)
    /\ sessions' = SessionsAfterClose(sessions, session)
    /\ scopePc' = "exited"
    /\ exitPath' = path
    /\ UNCHANGED <<session, taskVars>> /\ Others

\* client.py:63-66   close() called by the application
Close ==
    /\ session # 0
    /\ sessions' = SessionsAfterClose(sessions, session)
    /\ UNCHANGED <<session, scopePc, exitPath, taskVars>> /\ Others

\* the call of task t starts: the per-call bookkeeping
Begin(t, o, a) ==
    /\ pc[t] = "idle"
    /\ MayEnsure
    /\ op' = [op EXCEPT ![t] = o]
    /\ arg' = [arg EXCEPT ![t] = a]
    /\ sessions' = SessionsAfterEnsure
    /\ session' = SessionAfterEnsure

\* self._session.get/post: a request leaves on self._session as it is now, or
\* aiohttp raises RuntimeError("Session is closed") without sending
SendOrFail(t, sess, ss) ==
    IF ss[sess] = "open"
    THEN /\ pc' = [pc EXCEPT ![t] = "sent"]
         /\ requests' = [requests EXCEPT ![t] = @ + 1]
         /\ used' = [used EXCEPT ![t] = sess]
         /\ overlap' = [u \in Tasks |->
                IF u = t THEN \E w \in Tasks \ {t} : pc[w] = "sent"
                ELSE overlap[u] \/ pc[u] = "sent"]
         /\ UNCHANGED out
    ELSE /\ pc' = [pc EXCEPT ![t] = "raised"]
         /\ out' = [out EXCEPT ![t] = RaisedBare("RuntimeError")]
         /\ UNCHANGED <<requests, used, overlap>>

\* client.py:345-377   get_user_info / get_user_files_list up to the request
CallGet(t, o) ==
    /\ o \in GetOps
    /\ Begin(t, o, "none")
    /\ SendOrFail(t, SessionAfterEnsure, SessionsAfterEnsure)
    /\ UNCHANGED <<scopePc, exitPath, net, served, thread, tmp>> /\ Others

\* client.py:157-165   upload_file up to aiofiles.open
CallUploadFile(t, a) ==
    /\ a \in PathKinds
    /\ Begin(t, "upload_file", a)
    /\ IF ~PathExists(a)
       THEN /\ pc' = [pc EXCEPT ![t] = "raised"]
            /\ out' = [out EXCEPT ![t] = RaisedBare("FileNotFoundError")]
       ELSE /\ pc' = [pc EXCEPT ![t] = "opening"]
            /\ UNCHANGED out
    /\ UNCHANGED <<scopePc, exitPath, net, served, used, requests, thread, tmp, overlap>>
    /\ Others

\* client.py:165   aiofiles.open(file_path, "rb")
OpenFile(t) ==
    /\ pc[t] = "opening"
    /\ IF arg[t] = "dir"
       THEN /\ pc' = [pc EXCEPT ![t] = "raised"]
            /\ out' = [out EXCEPT ![t] = RaisedBare("IsADirectoryError")]
       ELSE /\ pc' = [pc EXCEPT ![t] = "reading"]
            /\ UNCHANGED out
    /\ UNCHANGED <<clientVars, op, arg, net, served, used, requests, thread, tmp, overlap>>
    /\ Others

\* client.py:166-174   file.read(), then the POST
ReadAndPost(t) ==
    /\ pc[t] = "reading"
    /\ SendOrFail(t, session, sessions)
    /\ UNCHANGED <<clientVars, op, arg, net, served, thread, tmp>> /\ Others

\* client.py:221-224   finally: remove the temporary archive if it is there
TmpAfterFinally(state) == IF state = "exists" THEN "removed" ELSE state

\* client.py:191-205   upload_folder up to run_in_executor
CallUploadFolder(t, a) ==
    /\ a \in PathKinds
    /\ Begin(t, "upload_folder", a)
    /\ IF ~PathExists(a) \/ ~PathIsDir(a)
       THEN /\ pc' = [pc EXCEPT ![t] = "raised"]
            /\ out' = [out EXCEPT ![t] = RaisedBare("FileNotFoundError")]
            /\ UNCHANGED <<thread, tmp>>
       ELSE /\ pc' = [pc EXCEPT ![t] = "zipping"]
            /\ tmp' = [tmp EXCEPT ![t] = "exists"]
            /\ thread' = [thread EXCEPT ![t] = "queued"]
            /\ UNCHANGED out
    /\ UNCHANGED <<scopePc, exitPath, net, served, used, requests, overlap>>
    /\ Others

\* the executor picks the job up: _create_zip starts on a worker thread
ThreadStart(t) ==
    /\ thread[t] = "queued"
    /\ thread' = [thread EXCEPT ![t] = "running"]
    /\ UNCHANGED <<clientVars, pc, op, arg, out, net, served, used, requests, tmp, overlap>>
    /\ Others

\* client.py:234   zipfile.ZipFile(temp_path, "w"): opens the path for writing,
\* creating the file when it is not there
ThreadOpen(t) ==
    /\ thread[t] = "running"
    /\ thread' = [thread EXCEPT ![t] = "writing"]
    /\ tmp' = [tmp EXCEPT ![t] = "exists"]
    /\ UNCHANGED <<clientVars, pc, op, arg, out, net, served, used, requests, overlap>>
    /\ Others

\* client.py:235-239   the walk ends, or a file of the folder cannot be read
ThreadEnd(t, how) ==
    /\ thread[t] = "writing"
    /\ how \in {"done", "failed"}
    /\ thread' = [thread EXCEPT ![t] = how]
    /\ UNCHANGED <<clientVars, pc, op, arg, out, net, served, used, requests, tmp, overlap>>
    /\ Others

\* client.py:203-209   the await on the executor returns or raises
ZipAwaited(t) ==
    /\ pc[t] = "zipping"
    /\ thread[t] \in {"done", "failed"}
    /\ IF thread[t] = "done"
       THEN /\ pc' = [pc EXCEPT ![t] = "zopening"]
            /\ UNCHANGED <<out, tmp>>
       ELSE /\ pc' = [pc EXCEPT ![t] = "raised"]
            /\ out' = [out EXCEPT ![t] = RaisedBare("OSError")]
            /\ tmp' = [tmp EXCEPT ![t] = TmpAfterFinally(@)]
    /\ UNCHANGED <<clientVars, op, arg, net, served, used, requests, thread, overlap>>
    /\ Others

\* client.py:209   aiofiles.open(temp_path, "rb")
ZipOpen(t) ==
    /\ pc[t] = "zopening"
    /\ IF tmp[t] = "exists"
       THEN /\ pc' = [pc EXCEPT ![t] = "zreading"]
            /\ UNCHANGED out
       ELSE /\ pc' = [pc EXCEPT ![t] = "raised"]
            /\ out' = [out EXCEPT ![t] = RaisedBare("FileNotFoundError")]
    /\ UNCHANGED <<clientVars, op, arg, net, served, used, requests, thread, tmp, overlap>>
    /\ Others

\* client.py:210-218   file.read(), then the POST; finally when the POST raises
ZipReadAndPost(t) ==
    /\ pc[t] = "zreading"
    /\ SendOrFail(t, session, sessions)
    /\ tmp' = [tmp EXCEPT ![t] = IF sessions[session] = "open" THEN @ ELSE TmpAfterFinally(@)]
    /\ UNCHANGED <<clientVars, op, arg, net, served, thread>> /\ Others

\* the service answers the request of task t
ServerReply(t, r) ==
    /\ pc[t] = "sent"
    /\ served[t] = NoResponse
    /\ r \in ServiceReplies(op[t])
    /\ net' = [net EXCEPT ![t] = r]
    /\ served' = [served EXCEPT ![t] = r]
    /\ UNCHANGED <<clientVars, pc, op, arg, out, used, requests, thread, tmp, overlap>>
    /\ Others

\* client.py:175-176, 219-224, 359-360, 376-377   the response arrives: interpret
\* it, decode the model, leave the call
Receive(t) ==
    /\ pc[t] = "sent"
    /\ net[t] # NoResponse
    /\ out' = [out EXCEPT ![t] = InterpretTable[op[t], ResponseFor(t)]]
    /\ pc' = [pc EXCEPT ![t] = IF out'[t].kind = "raise" THEN "raised" ELSE "returned"]
    /\ net' = [net EXCEPT ![t] = NoResponse]
    /\ tmp' = [tmp EXCEPT ![t] = TmpAfterFinally(@)]
    /\ UNCHANGED <<clientVars, op, arg, served, used, requests, thread, overlap>>
    /\ Others

\* the session the request went out on was closed under it: the transport fails
\* the request
ConnectionLost(t) ==
    /\ pc[t] = "sent"
    /\ sessions[used[t]] = "closed"
    /\ out' = [out EXCEPT ![t] = RaisedBare("ClientConnectionError")]
    /\ pc' = [pc EXCEPT ![t] = "raised"]
    /\ net' = [net EXCEPT ![t] = NoResponse]
    /\ tmp' = [tmp EXCEPT ![t] = TmpAfterFinally(@)]
    /\ UNCHANGED <<clientVars, op, arg, served, used, requests, thread, overlap>>
    /\ Others

\* the call is cancelled at the await it is suspended on: CancelledError runs the
\* finally block; a job the executor has not started yet is cancelled with it
Cancel(t) ==
    /\ pc[t] \in Suspended
    /\ pc' = [pc EXCEPT ![t] = "cancelled"]
    /\ out' = [out EXCEPT ![t] = RaisedBare("CancelledError")]
    /\ net' = [net EXCEPT ![t] = NoResponse]
    /\ tmp' = [tmp EXCEPT ![t] = TmpAfterFinally(@)]
    /\ thread' = [thread EXCEPT ![t] = IF @ = "queued" THEN "cancelled" ELSE @]
    /\ UNCHANGED <<clientVars, op, arg, served, used, requests, overlap>>
    /\ Others

\* the caller has the result and the worker thread is through: the task is free
\* for its next call
Finish(t) ==
    /\ pc[t] \in Ended
    /\ thread[t] \in {"none", "done", "failed", "cancelled"}
    /\ pc' = [pc EXCEPT ![t] = "idle"]
    /\ op' = [op EXCEPT ![t] = "none"]
    /\ arg' = [arg EXCEPT ![t] = "none"]
    /\ out' = [out EXCEPT ![t] = NoOutcome]
    /\ served' = [served EXCEPT ![t] = NoResponse]
    /\ used' = [used EXCEPT ![t] = 0]
    /\ requests' = [requests EXCEPT ![t] = 0]
    /\ thread' = [thread EXCEPT ![t] = "none"]
    /\ tmp' = [tmp EXCEPT ![t] = "none"]
    /\ overlap' = [overlap EXCEPT ![t] = FALSE]
    /\ UNCHANGED <<clientVars, net>> /\ Others

Next ==
    \/ AEnter
    \/ \E path \in {"normal", "exception", "cancelled"} : AExit(path)
    \/ Close
    \/ \E t \in Tasks :
        \/ \E o \in GetOps : CallGet(t, o)
        \/ \E a \in PathKinds : CallUploadFile(t, a)
        \/ OpenFile(t)
        \/ ReadAndPost(t)
        \/ \E a \in PathKinds : CallUploadFolder(t, a)
        \/ ThreadStart(t)
        \/ ThreadOpen(t)
        \/ \E how \in {"done", "failed"} : ThreadEnd(t, how)
        \/ ZipAwaited(t)
        \/ ZipOpen(t)
        \/ ZipReadAndPost(t)
        \/ \E r \in ServiceReplies(op[t]) : ServerReply(t, r)
        \/ Receive(t)
        \/ ConnectionLost(t)
        \/ Cancel(t)
        \/ Finish(t)

Spec == Init /\ [][Next]_vars

\* test.py:118-128   asyncio.gather of concurrent calls inside one async with
\* block: the calls of each task, the answers of the service, nothing else
GatherStep(t) == (\E r \in ServiceReplies(op[t]) : ServerReply(t, r)) \/ Receive(t)

NextGather ==
    \/ AEnter
    \/ \E t \in Tasks :
        \/ \E o \in GetOps : CallGet(t, o)
        \/ \E r \in ServiceReplies(op[t]) : ServerReply(t, r)
        \/ Receive(t)
        \/ Finish(t)

\* the event loop resumes a coroutine whose response is there, and the service
\* answers every request
SpecGather == Init /\ [][NextGather]_vars /\ \A t \in Tasks : WF_vars(GatherStep(t))

MainIdle ==
    /\ session = 0 /\ sessions = <<>> /\ scopePc = "outside" /\ exitPath = "none"
    /\ pc = Const("idle") /\ op = Const("none") /\ arg = Const("none")
    /\ out = Const(NoOutcome) /\ net = Const(NoResponse) /\ served = Const(NoResponse)
    /\ used = Const(0) /\ requests = Const(0) /\ thread = Const("none")
    /\ tmp = Const("none") /\ overlap = Const(FALSE)
    /\ calls = <<>>

RespIdle == hrResp = NoResponse /\ hrOut = NoOutcome

DownloadIdle ==
    /\ dlResp = NoResponse
    /\ dlDest = NoDest
    /\ dlPc = "idle"
    /\ dlContent = NoOutcome
    /\ dlTarget = NoPath
    /\ dlFile = NoFile
    /\ dlOut = NoOutcome

InitDl == InitDownload /\ RespIdle /\ MainIdle

SpecDownload == InitDl /\ [][NextDownload]_vars

InitResp ==
    /\ hrResp \in RespInputs
    /\ hrOut = NoOutcome
    /\ DownloadIdle
    /\ MainIdle

HandleResponseStep ==
    /\ hrOut = NoOutcome
    /\ hrOut' = HandleResponse(hrResp)
    /\ UNCHANGED <<hrResp, dlVars, mainVars>>

NextResp == HandleResponseStep

SpecResp == InitResp /\ [][NextResp]_vars

(***************************************************************************)
(* SpecSession: the session handle under every sequence of calls of        *)
(* _ensure_session and close(), each call logged with the state it found.  *)
(***************************************************************************)
\* the client's session state: self._session and the sessions created so far
ClientState(cur, ss) == [held |-> cur, all |-> ss]

Logged(name) == Append(calls, [call |-> name, found |-> ClientState(session, sessions)])

\* client.py:58-61   _ensure_session
EnsureSession ==
    /\ Len(calls) < MaxCalls
    /\ MayEnsure
    /\ sessions' = SessionsAfterEnsure
    /\ session' = SessionAfterEnsure
    /\ calls' = Logged("ensure")
    /\ UNCHANGED <<scopePc, exitPath, taskVars, respVars, dlVars>>

\* client.py:63-66   close, in whatever state the client is
CloseSession ==
    /\ Len(calls) < MaxCalls
    /\ sessions' = SessionsAfterClose(sessions, session)
    /\ calls' = Logged("close")
    /\ UNCHANGED <<session, scopePc, exitPath, taskVars, respVars, dlVars>>

NextSession == EnsureSession \/ CloseSession

SpecSession == Init /\ [][NextSession]_vars


(***************************************************************************)
(* Claims about the interpreter (SpecResp).                                *)
(***************************************************************************)
Interpreted == hrOut # NoOutcome

\* response.json() decodes the body: declared as JSON and JSON text
DecodesAsJson(r) == IsJsonMime(r.ctype) /\ r.body.form = "json"

IsValidationBody(r) ==
    /\ DecodesAsJson(r)
    /\ r.body.val.ty = "obj"
    /\ r.body.val.detail.k = "list"
    /\ \A i \in 1..Len(r.body.val.detail.items) : r.body.val.detail.items[i] = "ok"

\* C1: a failure response whose JSON body is {"detail": [e1..en]} with well-formed
\* entries is signalled as OpenfilesValidationError with exactly n details.
C1_ValidationErrorSignalled ==
    (Interpreted /\ ~ResponseOk(hrResp) /\ IsValidationBody(hrResp))
        => /\ hrOut.kind = "raise"
           /\ hrOut.exc = "OpenfilesValidationError"
           /\ Len(hrOut.details) = Len(hrResp.body.val.detail.items)

\* C2: a failure response whose body cannot be decoded as JSON (not JSON text, or
\* not declared as JSON) is signalled as OpenfilesHTTPError carrying the status
\* code and the raw body text; nothing else escapes.
C2_UndecodableIsHTTPError ==
    (Interpreted /\ ~ResponseOk(hrResp)
        /\ (hrResp.body.form = "notjson" \/ ~IsJsonMime(hrResp.ctype)))
        => hrOut = OpenfilesHTTPError(hrResp.status, hrResp.body)

IsStringDetailBody(r) ==
    /\ DecodesAsJson(r)
    /\ r.body.val.ty = "obj"
    /\ r.body.val.detail.k = "str"

\* C3: a failure response whose JSON body is an object with a plain-string detail
\* is signalled as OpenfilesAPIError carrying the status code and the decoded
\* object, never as a validation or HTTP error.
C3_StringDetailIsAPIError ==
    (Interpreted /\ ~ResponseOk(hrResp) /\ IsStringDetailBody(hrResp))
        => /\ hrOut = OpenfilesAPIError(hrResp.status, hrResp.body.val)
           /\ hrOut.exc \notin {"OpenfilesValidationError", "OpenfilesHTTPError"}

C3_Witness ==
    /\ Interpreted
    /\ hrResp.status = 422
    /\ IsStringDetailBody(hrResp)
    /\ hrOut.kind = "raise"
    /\ hrOut.exc = "OpenfilesAPIError"
    /\ hrOut.status = 422
    /\ hrOut.data.val = hrResp.body.val


(***************************************************************************)
(* Claims about download_file (SpecDownload).                              *)
(***************************************************************************)
DlResolved == dlPc \in {"open", "write", "done"}

\* C8: for every successful response, whatever its Content-Type, download_file
\* writes the body bytes verbatim to the resolved destination and returns that
\* path; it never raises or returns without the file holding the body. (Stated
\* for destinations that can be opened for writing.)
C8_AlwaysWritesBody ==
    (ResponseOk(dlResp) /\ dlPc # "idle"
        /\ CanOpenForWrite(ResolveDestination(dlDest, GetFilenameFromHeaders(dlResp.cd))))
        => /\ dlPc # "raised"
           /\ dlPc = "done" =>
                /\ dlFile.open
                /\ dlFile.at = Locate(dlTarget)
                /\ dlFile.content = RawBytes(dlResp.body)
                /\ dlOut = Returned("path", dlTarget)

\* the first position of filename= in s from i, or 0
RECURSIVE FirstFilename(_, _)
FirstFilename(s, i) ==
    IF i > Len(s) THEN 0 ELSE IF s[i] = FN THEN i ELSE FirstFilename(s, i + 1)

\* the symbols from j up to the first one in stop
RECURSIVE UpTo(_, _, _)
UpTo(s, j, stop) ==
    IF j > Len(s) \/ s[j] \in stop THEN <<>> ELSE <<s[j]>> \o UpTo(s, j + 1, stop)

\* the value of the first filename= token: between the quotes when quoted, up to
\* the next separator when bare
FirstToken(s) ==
    LET i == FirstFilename(s, 1) IN
    IF i = 0 THEN <<>>
    ELSE IF i + 1 <= Len(s) /\ s[i + 1] = QUOTE THEN UpTo(s, i + 2, {QUOTE})
    ELSE UpTo(s, i + 1, {QUOTE, ";"})

\* F of the claim, for a header that is absent, has no filename= , or whose first
\* token is a plain name
PlainHeader(cd) ==
    LET s == ContentDisposition(cd) IN
    \/ ~HasFilenameLiteral(s)
    \/ /\ FirstToken(s) # <<>>
       /\ \A k \in 1..Len(FirstToken(s)) : FirstToken(s)[k] = "report.txt"

ClaimedFilename(cd) ==
    LET s == ContentDisposition(cd) IN
    IF HasFilenameLiteral(s) THEN FirstToken(s) ELSE DefaultFilename

\* C9: the target is F in the working directory when the destination is omitted,
\* D/F when the destination is an existing directory D, and the destination as
\* given otherwise, F being the first filename= token of Content-Disposition
\* (quoted or bare) or downloaded_file.
C9_DestinationResolution ==
    (DlResolved /\ PlainHeader(dlResp.cd))
        => LET F == ClaimedFilename(dlResp.cd) IN
           dlTarget = IF ~dlDest.given THEN MkPath(FALSE, <<F>>)
                      ELSE IF IsDir(dlDest.path)
                           THEN MkPath(dlDest.path.abs, Append(dlDest.path.parts, F))
                           ELSE dlDest.path

IsProperPrefix(a, b) == Len(a) < Len(b) /\ SubSeq(b, 1, Len(a)) = a

\* C10: with an existing directory D as destination, the file written lies inside
\* D, whatever filename the service sends.
C10_WrittenInsideDirectory ==
    (dlDest.given /\ IsDir(dlDest.path) /\ dlFile.open)
        => IsProperPrefix(Locate(dlDest.path), dlFile.at)


(***************************************************************************)
(* Claims about the client shared by concurrent tasks (Spec).              *)
(***************************************************************************)
\* C4: entering the async with block leaves the client holding an open session,
\* and whichever way the body is left (normally, by an exception, by
\* cancellation) the session the client holds is closed when __aexit__ completes.
C4_ScopeOpensAndCloses ==
    [][/\ (scopePc # "body" /\ scopePc' = "body") => SessionOpen'
       /\ (scopePc = "body" /\ scopePc' = "exited") => SessionClosed']_vars

C4_Witness ==
    /\ scopePc = "exited"
    /\ exitPath = "cancelled"
    /\ SessionClosed
    /\ \E t \in Tasks : pc[t] = "cancelled" /\ used[t] = session

\* C5: once a call of upload_folder that passed the directory check has ended,
\* its temporary archive is not on disk, on every exit path: success, a failure
\* while archiving, reading or uploading, a remote error, and cancellation while
\* _create_zip is still running on the executor.
C5_TempArchiveRemoved ==
    \A t \in Tasks :
        (op[t] = "upload_folder" /\ PathIsDir(arg[t]) /\ pc[t] \in Ended)
            => tmp[t] # "exists"

C6_OwnResponse ==
    \A t \in Tasks :
        (op[t] \in GetOps /\ pc[t] \in {"returned", "raised"} /\ ResponseOk(served[t]))
            => /\ out[t] = Returned(ModelOf(op[t]), served[t].body.val)
               /\ out[t].data.shape = ModelOf(op[t])

\* C6: get_user_info and get_user_files_list running concurrently on one client
\* and one session both complete under every interleaving, and each returns the
\* value decoded from the response to its own request, never the other's.
C6_IndependentResults ==
    /\ []C6_OwnResponse
    /\ \A t \in Tasks : (pc[t] = "sent") ~> (pc[t] \in {"returned", "raised"})

C6_Witness ==
    \E t, u \in Tasks :
        /\ op[t] = "get_user_info" /\ op[u] = "get_user_files_list"
        /\ pc[t] = "returned" /\ pc[u] = "returned"
        /\ overlap[t] /\ overlap[u]
        /\ used[t] = used[u]
        /\ out[t].data = served[t].body.val /\ out[u].data = served[u].body.val
        /\ out[t].data.val # out[u].data.val

FailsPrecondition(t) ==
    \/ op[t] = "upload_file" /\ arg[t] = "missing"
    \/ op[t] = "upload_folder" /\ arg[t] \in {"missing", "file"}

\* C7: upload_file on a path that does not exist, and upload_folder on a path
\* that does not exist or is no directory, fail with FileNotFoundError, which is
\* none of the remote error kinds, and no HTTP request is issued during the call.
C7_PreconditionFailsBeforeRequest ==
    \A t \in Tasks :
        (FailsPrecondition(t) /\ pc[t] # "idle")
            => /\ pc[t] = "raised"
               /\ out[t] = RaisedBare("FileNotFoundError")
               /\ ~IsInstance(out[t].exc, "OpenfilesError")
               /\ requests[t] = 0
               /\ net[t] = NoResponse /\ served[t] = NoResponse

C7_Witness ==
    \E t, u \in Tasks :
        /\ op[t] = "upload_file" /\ arg[t] = "missing"
        /\ op[u] = "upload_folder" /\ arg[u] = "file"
        /\ pc[t] = "raised" /\ pc[u] = "raised"
        /\ out[t].exc = "FileNotFoundError" /\ out[u].exc = "FileNotFoundError"
        /\ requests[t] = 0 /\ requests[u] = 0

(***************************************************************************)
(* Claims about the session handle (SpecSession, Spec).                    *)
(***************************************************************************)
\* the state call i found, and the state it left
Found(i) == calls[i].found
Left(i) == IF i = Len(calls) THEN ClientState(session, sessions) ELSE calls[i + 1].found
OpenIn(c) == c.held # 0 /\ c.all[c.held] = "open"

\* C11: close() is safe in every session state: with no session ever created, or
\* with the held session already closed, it changes nothing; with the held session
\* open it closes that session and nothing else; and a close() right after a
\* close() changes nothing more.
C11_CloseSafeInEveryState ==
    \A i \in 1..Len(calls) :
        calls[i].call = "close" =>
            /\ ~OpenIn(Found(i)) => Left(i) = Found(i)
            /\ OpenIn(Found(i)) =>
                    Left(i) = ClientState(Found(i).held,
                                          [Found(i).all EXCEPT ![Found(i).held] = "closed"])
            /\ (i > 1 /\ calls[i - 1].call = "close") => Left(i) = Found(i)

C11_Witness ==
    /\ \E i \in 1..Len(calls) : calls[i].call = "close" /\ Found(i).held = 0
    /\ \E i \in 2..Len(calls) :
            /\ calls[i - 1].call = "close" /\ OpenIn(Found(i - 1))
            /\ calls[i].call = "close" /\ ~OpenIn(Found(i)) /\ Found(i).held # 0

OpenSessions == {i \in 1..Len(sessions) : sessions[i] = "open"}

\* a step in which _ensure_session runs: __aenter__, or an operation starting
EnsureStep ==
    \/ scopePc # "body" /\ scopePc' = "body"
    \/ \E t \in Tasks : pc[t] = "idle" /\ pc'[t] # "idle"

\* what a step may do to the session handle
EnsureEffect ==
    /\ EnsureStep =>
        /\ IF NeedsSession
           THEN sessions' = Append(sessions, "open") /\ session' = Len(sessions')
           ELSE UNCHANGED <<session, sessions>>
        /\ ~NeedsSession'
    /\ ~EnsureStep => (session' = session /\ Len(sessions') = Len(sessions))
    /\ SessionOpen => session' = session

\* C12: _ensure_session creates a session exactly when the client holds none or a
\* closed one and otherwise leaves the handle alone, so a second call does nothing
\* and an open session is never replaced; and whatever the operations, close()
\* calls and concurrent tasks do, the only session of the client that can be open
\* is the one it holds.
C12_OneOpenSession ==
    /\ [](OpenSessions \subseteq {session})
    /\ [][EnsureEffect]_vars

C12_Witness ==
    /\ Len(sessions) = 2 /\ sessions[1] = "closed" /\ session = 2 /\ SessionOpen
    /\ \A t \in Tasks : pc[t] = "sent" /\ used[t] = session /\ overlap[t]

\* C13: an operation that has passed its _ensure_session step never makes its
\* request on a closed session, whatever close() calls, scope exits and other
\* operations run while it is suspended between the two: no call ends with
\* aiohttp's RuntimeError("Session is closed").
C13_RequestOnOpenSession ==
    \A t \in Tasks : pc[t] = "raised" => out[t] # RaisedBare("RuntimeError")

\* the step in which a call of task t fails its local precondition
PreconditionFailure(t) ==
    /\ pc[t] = "idle" /\ pc'[t] = "raised"
    /\ \/ op'[t] = "upload_file" /\ ~PathExists(arg'[t])
       \/ op'[t] = "upload_folder" /\ (~PathExists(arg'[t]) \/ ~PathIsDir(arg'[t]))

\* C14: a call of upload_file or upload_folder that fails its local precondition
\* leaves the client and the local system as they were: the session handle and
\* every session are the same as before the call, and no temporary archive is
\* created.
C14_FailedCallChangesNothing ==
    [][\A t \in Tasks :
          PreconditionFailure(t) =>
              (session' = session /\ sessions' = sessions /\ tmp'[t] = tmp[t])]_vars

=============================================================================
